---- MODULE Spec2Model ----
(***************************************************************************)
(* The segmentation engine of zh2vid (app/services/utils/process_md.py):   *)
(* split_markdown_for_video_with_image_split and get_script_segments.      *)
(* A Python str is modelled as a sequence of one-character strings, and    *)
(* every library call (str.strip, str.split, re.split, re.search, re.sub)  *)
(* is computed on those characters.                                        *)
(***************************************************************************)
EXTENDS Integers, Sequences, FiniteSets, TLC

\* ------------------------------------------------------------------------
\* Bounds of the model
\* ------------------------------------------------------------------------
MaxTokens == 4
MaxWords == 2
MaxBlocks == 5
MaxLinks == 2
MaxSegments == 2

\* ------------------------------------------------------------------------
\* Characters
\* ------------------------------------------------------------------------
Whitespace == {" ", "\n"}

Digits == {"0", "1", "2", "3", "4", "5", "6", "7", "8", "9"}

SentenceEnd == {".", "!", "?"}

DigitVal(c) ==
    CASE c = "0" -> 0 [] c = "1" -> 1 [] c = "2" -> 2 [] c = "3" -> 3
      [] c = "4" -> 4 [] c = "5" -> 5 [] c = "6" -> 6 [] c = "7" -> 7
      [] c = "8" -> 8 [] c = "9" -> 9

\* image_index=None of a ScriptSegment (int() of \d+ is never negative)
None == -1

\* ------------------------------------------------------------------------
\* str methods
\* ------------------------------------------------------------------------
Min(S) == CHOOSE x \in S : \A y \in S : x <= y

Max(S) == CHOOSE x \in S : \A y \in S : x >= y

\* s[i:] with i a 1-based first index
From(s, i) == SubSeq(s, i, Len(s))

\* str.strip()
strip(s) ==
    LET keep == {i \in 1..Len(s) : s[i] \notin Whitespace}
    IN  IF keep = {} THEN <<>> ELSE SubSeq(s, Min(keep), Max(keep))

\* len(s.split())
WordCount(s) ==
    Cardinality({i \in 1..Len(s) :
        s[i] \notin Whitespace /\ (i = 1 \/ s[i - 1] \in Whitespace)})

\* s.split('\n')
RECURSIVE SplitLines(_)
SplitLines(s) ==
    LET nl == {i \in 1..Len(s) : s[i] = "\n"}
    IN  IF nl = {} THEN <<s>>
        ELSE <<SubSeq(s, 1, Min(nl) - 1)>> \o SplitLines(From(s, Min(nl) + 1))

\* '\n'.join(ls)
RECURSIVE JoinLines(_)
JoinLines(ls) ==
    IF ls = <<>> THEN <<>>
    ELSE IF Len(ls) = 1 THEN ls[1]
    ELSE ls[1] \o <<"\n">> \o JoinLines(Tail(ls))

\* s.startswith(c)
startswith(s, c) == Len(s) >= 1 /\ s[1] = c

\* number of leading characters of s, from index i on, that are in set S
RECURSIVE Run(_, _, _)
Run(s, i, S) == IF i <= Len(s) /\ s[i] \in S THEN 1 + Run(s, i + 1, S) ELSE 0

\* re.match(r'^\d+\.', s)
MatchNumbered(s) ==
    LET k == Run(s, 1, Digits) IN k >= 1 /\ k + 1 <= Len(s) /\ s[k + 1] = "."

\* the bullet / list item test of the block grouper and of the packer
IsListItem(stripped) ==
    startswith(stripped, "-") \/ startswith(stripped, "*") \/ MatchNumbered(stripped)

\* ------------------------------------------------------------------------
\* split_long_text: the Sentence Splitter
\* ------------------------------------------------------------------------
\* a mutation of ReSplitSentences: \s* in place of \s+, a sentence ends at
\* any . ! or ? whatever follows it
RECURSIVE ReSplitSentencesAnyPunct(_)
ReSplitSentencesAnyPunct(s) ==
    LET hits == {i \in 1..Len(s) : s[i] \in SentenceEnd}
    IN  IF hits = {} THEN <<s>>
        ELSE LET i == Min(hits)
                 w == Run(s, i + 1, Whitespace)
             IN  <<SubSeq(s, 1, i - 1), <<s[i]>>>>
                     \o ReSplitSentencesAnyPunct(From(s, i + 1 + w))

\* re.split(r'([.!?])\s+', s): text, captured punctuation, text, ...
RECURSIVE ReSplitSentences(_)
ReSplitSentences(s) ==
    LET hits == {i \in 1..(Len(s) - 1) :
                    s[i] \in SentenceEnd /\ s[i + 1] \in Whitespace}
    IN  IF hits = {} THEN <<s>>
        ELSE LET i == Min(hits)
                 w == Run(s, i + 1, Whitespace)
             IN  <<SubSeq(s, 1, i - 1), <<s[i]>>>>
                     \o ReSplitSentences(From(s, i + 1 + w))

\* p in '.!?' (a substring test)
InPunct(p) ==
    p \in {<<>>, <<".">>, <<"!">>, <<"?">>, <<".", "!">>, <<"!", "?">>,
           <<".", "!", "?">>}

\* a mutation of RecombineSentences: the captured punctuation is not glued
\* back to its sentence
RECURSIVE RecombineSentencesDropsPunct(_, _)
RecombineSentencesDropsPunct(parts, i) ==
    IF i > Len(parts) THEN <<>>
    ELSE IF i + 1 <= Len(parts) /\ InPunct(parts[i + 1])
         THEN <<parts[i]>> \o RecombineSentencesDropsPunct(parts, i + 2)
         ELSE (IF strip(parts[i]) # <<>> THEN <<parts[i]>> ELSE <<>>)
                  \o RecombineSentencesDropsPunct(parts, i + 1)

\* the while loop that glues each sentence to its punctuation; i is 1-based
RECURSIVE RecombineSentences(_, _)
RecombineSentences(parts, i) ==
    IF i > Len(parts) THEN <<>>
    ELSE IF i + 1 <= Len(parts) /\ InPunct(parts[i + 1])
         THEN <<parts[i] \o parts[i + 1]>> \o RecombineSentences(parts, i + 2)
         ELSE (IF strip(parts[i]) # <<>> THEN <<parts[i]>> ELSE <<>>)
                  \o RecombineSentences(parts, i + 1)

Sentences(s) == RecombineSentences(ReSplitSentences(s), 1)

\* a mutation of SentenceOverflows: the budget test is off by one
SentenceOverflowsLax(count, words, max_words) == count + words > max_words + 1

\* "current_word_count + sentence_words > max_words"
SentenceOverflows(count, words, max_words) == count + words > max_words

\* a mutation of PackSentence: a sentence over the budget is glued to the
\* pending chunk instead of closing it
PackSentenceMergesOversized(st, raw, max_words) ==
    LET sentence == strip(raw)
        sentence_words == WordCount(sentence)
    IN  IF sentence = <<>> THEN st
        ELSE IF sentence_words > max_words
        THEN [segments |-> Append(st.segments,
                               IF st.current_segment # <<>>
                               THEN st.current_segment \o <<" ">> \o sentence
                               ELSE sentence),
              current_segment |-> <<>>,
              current_word_count |-> 0]
        ELSE IF SentenceOverflows(st.current_word_count, sentence_words, max_words)
        THEN [segments |-> IF st.current_segment # <<>>
                           THEN Append(st.segments, strip(st.current_segment))
                           ELSE st.segments,
              current_segment |-> sentence,
              current_word_count |-> sentence_words]
        ELSE [segments |-> st.segments,
              current_segment |-> IF st.current_segment # <<>>
                                  THEN st.current_segment \o <<" ">> \o sentence
                                  ELSE sentence,
              current_word_count |-> st.current_word_count + sentence_words]

\* one iteration of "for sentence in sentences"
PackSentence(st, raw, max_words) ==
    LET sentence == strip(raw)
        sentence_words == WordCount(sentence)
    IN  IF sentence = <<>> THEN st
        ELSE IF sentence_words > max_words
        THEN [segments |-> (IF st.current_segment # <<>>
                            THEN Append(st.segments, strip(st.current_segment))
                            ELSE st.segments) \o <<sentence>>,
              current_segment |-> IF st.current_segment # <<>> THEN <<>>
                                  ELSE st.current_segment,
              current_word_count |-> IF st.current_segment # <<>> THEN 0
                                     ELSE st.current_word_count]
        ELSE IF SentenceOverflows(st.current_word_count, sentence_words, max_words)
        THEN [segments |-> IF st.current_segment # <<>>
                           THEN Append(st.segments, strip(st.current_segment))
                           ELSE st.segments,
              current_segment |-> sentence,
              current_word_count |-> sentence_words]
        ELSE [segments |-> st.segments,
              current_segment |-> IF st.current_segment # <<>>
                                  THEN st.current_segment \o <<" ">> \o sentence
                                  ELSE sentence,
              current_word_count |-> st.current_word_count + sentence_words]

RECURSIVE PackSentences(_, _, _, _)
PackSentences(sentences, k, st, max_words) ==
    IF k > Len(sentences) THEN st
    ELSE PackSentences(sentences, k + 1,
                       PackSentence(st, sentences[k], max_words), max_words)

split_long_text(s, max_words) ==
    LET st == PackSentences(Sentences(s), 1,
                  [segments |-> <<>>, current_segment |-> <<>>,
                   current_word_count |-> 0], max_words)
    IN  IF strip(st.current_segment) # <<>>
        THEN Append(st.segments, strip(st.current_segment))
        ELSE st.segments

\* ------------------------------------------------------------------------
\* The Block Grouper
\* ------------------------------------------------------------------------
\* a mutation of GroupLine: a header line is handled as regular text
GroupLineHeaderJoins(st, line) ==
    LET stripped == strip(line)
        cur == st.current_block
        flushed == IF cur # <<>> THEN Append(st.blocks, JoinLines(cur))
                   ELSE st.blocks
    IN  IF stripped = <<>>
        THEN [blocks |-> flushed, current_block |-> <<>>]
        ELSE IF IsListItem(stripped)
        THEN IF cur # <<>> /\ ~IsListItem(strip(cur[Len(cur)]))
             THEN [blocks |-> Append(st.blocks, JoinLines(cur)),
                   current_block |-> <<line>>]
             ELSE [blocks |-> st.blocks, current_block |-> Append(cur, line)]
        ELSE [blocks |-> st.blocks, current_block |-> Append(cur, line)]

\* a mutation of GroupLine: a bullet line always joins the open block
GroupLineBulletJoins(st, line) ==
    LET stripped == strip(line)
        cur == st.current_block
        flushed == IF cur # <<>> THEN Append(st.blocks, JoinLines(cur))
                   ELSE st.blocks
    IN  IF stripped = <<>>
        THEN [blocks |-> flushed, current_block |-> <<>>]
        ELSE IF startswith(stripped, "#")
        THEN [blocks |-> Append(flushed, stripped), current_block |-> <<>>]
        ELSE [blocks |-> st.blocks, current_block |-> Append(cur, line)]

\* one iteration of "for line in lines"
GroupLine(st, line) ==
    LET stripped == strip(line)
        cur == st.current_block
        flushed == IF cur # <<>> THEN Append(st.blocks, JoinLines(cur))
                   ELSE st.blocks
    IN  IF stripped = <<>>
        THEN [blocks |-> flushed, current_block |-> <<>>]
        ELSE IF startswith(stripped, "#")
        THEN [blocks |-> Append(flushed, stripped), current_block |-> <<>>]
        ELSE IF IsListItem(stripped)
        THEN IF cur # <<>> /\ ~IsListItem(strip(cur[Len(cur)]))
             THEN [blocks |-> Append(st.blocks, JoinLines(cur)),
                   current_block |-> <<line>>]
             ELSE [blocks |-> st.blocks, current_block |-> Append(cur, line)]
        ELSE [blocks |-> st.blocks, current_block |-> Append(cur, line)]

RECURSIVE GroupLines(_, _, _)
GroupLines(lines, k, st) ==
    IF k > Len(lines) THEN st
    ELSE GroupLines(lines, k + 1, GroupLine(st, lines[k]))

\* a mutation of GroupBlocks: the block still open after the last line is lost
GroupBlocksNoFinalFlush(t) ==
    GroupLines(SplitLines(strip(t)), 1,
               [blocks |-> <<>>, current_block |-> <<>>]).blocks

GroupBlocks(t) ==
    LET st == GroupLines(SplitLines(strip(t)), 1,
                         [blocks |-> <<>>, current_block |-> <<>>])
    IN  IF st.current_block # <<>>
        THEN Append(st.blocks, JoinLines(st.current_block))
        ELSE st.blocks

\* ------------------------------------------------------------------------
\* The Segment Packer
\* ------------------------------------------------------------------------
\* a mutation of LineOverflows: the budget test is off by one
LineOverflowsLax(count, words, max_words) == count + words > max_words + 1

\* "current_words + line_words > max_words"
LineOverflows(count, words, max_words) == count + words > max_words

\* one iteration of "for line in lines_in_block" (bullet blocks)
PackLine(st, line, max_words) ==
    LET line_words == WordCount(line)
    IN  IF line_words > max_words
        THEN [segments |-> (IF st.current_segment # <<>>
                            THEN Append(st.segments, strip(st.current_segment))
                            ELSE st.segments) \o split_long_text(line, max_words),
              current_segment |-> IF st.current_segment # <<>> THEN <<>>
                                  ELSE st.current_segment,
              current_words |-> IF st.current_segment # <<>> THEN 0
                                ELSE st.current_words]
        ELSE IF LineOverflows(st.current_words, line_words, max_words)
        THEN [segments |-> IF st.current_segment # <<>>
                           THEN Append(st.segments, strip(st.current_segment))
                           ELSE st.segments,
              current_segment |-> line,
              current_words |-> line_words]
        ELSE [segments |-> st.segments,
              current_segment |-> IF st.current_segment # <<>>
                                  THEN st.current_segment \o <<"\n">> \o line
                                  ELSE line,
              current_words |-> st.current_words + line_words]

RECURSIVE PackLines(_, _, _, _)
PackLines(ls, k, st, max_words) ==
    IF k > Len(ls) THEN st
    ELSE PackLines(ls, k + 1, PackLine(st, ls[k], max_words), max_words)

\* a mutation of WithinBudget: a block of exactly max_words words is split
WithinBudgetStrict(word_count, max_words) == word_count < max_words

\* "word_count <= max_words"
WithinBudget(word_count, max_words) == word_count <= max_words

\* the body of "for block in blocks": the segments one block contributes
PackBlock(raw, max_words) ==
    LET block == strip(raw)
        lines_in_block == SplitLines(block)
    IN  IF block = <<>> THEN <<>>
        ELSE IF WithinBudget(WordCount(block), max_words) THEN <<block>>
        ELSE IF \E k \in 1..Len(lines_in_block) :
                    IsListItem(strip(lines_in_block[k]))
        THEN LET st == PackLines(lines_in_block, 1,
                           [segments |-> <<>>, current_segment |-> <<>>,
                            current_words |-> 0], max_words)
             IN  IF strip(st.current_segment) # <<>>
                 THEN Append(st.segments, strip(st.current_segment))
                 ELSE st.segments
        ELSE split_long_text(block, max_words)

RECURSIVE PackBlocks(_, _)
PackBlocks(bs, max_words) ==
    IF bs = <<>> THEN <<>>
    ELSE PackBlock(bs[1], max_words) \o PackBlocks(Tail(bs), max_words)

\* ------------------------------------------------------------------------
\* The image pattern  !\[\]\(\$(\d+)\$\)
\* ------------------------------------------------------------------------
MarkerOpen == <<"!", "[", "]", "(", "$">>

\* a mutation of MatchEnd: \d* in place of \d+, an empty index matches
MatchEndEmptyIndex(s, p) ==
    LET k == Run(s, p + 5, Digits)
    IN  IF /\ p + 4 <= Len(s)
           /\ SubSeq(s, p, p + 4) = MarkerOpen
           /\ p + 6 + k <= Len(s)
           /\ s[p + 5 + k] = "$"
           /\ s[p + 6 + k] = ")"
        THEN p + 6 + k
        ELSE 0

\* the pattern tried at index p: the index of the closing ')' or 0 (no match)
MatchEnd(s, p) ==
    LET k == Run(s, p + 5, Digits)
    IN  IF /\ p + 4 <= Len(s)
           /\ SubSeq(s, p, p + 4) = MarkerOpen
           /\ k >= 1
           /\ p + 6 + k <= Len(s)
           /\ s[p + 5 + k] = "$"
           /\ s[p + 6 + k] = ")"
        THEN p + 6 + k
        ELSE 0

\* re.search(image_pattern, s) scanning from index p: match start, or 0
RECURSIVE SearchFrom(_, _)
SearchFrom(s, p) ==
    IF p > Len(s) THEN 0
    ELSE IF MatchEnd(s, p) # 0 THEN p
    ELSE SearchFrom(s, p + 1)

search(s) == SearchFrom(s, 1)

\* int(match.group(1)) of the digits s[i..j]
RECURSIVE ToInt(_, _, _)
ToInt(s, i, j) ==
    IF j < i THEN 0 ELSE 10 * ToInt(s, i, j - 1) + DigitVal(s[j])

\* a mutation of RemovePattern: only the first match is removed
RemovePatternFirstOnly(s) ==
    LET p == search(s)
    IN  IF p = 0 THEN s
        ELSE SubSeq(s, 1, p - 1) \o From(s, MatchEnd(s, p) + 1)

\* re.sub(image_pattern, '', s)
RECURSIVE RemovePattern(_)
RemovePattern(s) ==
    LET p == search(s)
    IN  IF p = 0 THEN s
        ELSE SubSeq(s, 1, p - 1) \o RemovePattern(From(s, MatchEnd(s, p) + 1))

\* re.sub(r'\s+', ' ', s)
RECURSIVE CollapseSpaces(_)
CollapseSpaces(s) ==
    IF s = <<>> THEN <<>>
    ELSE IF s[1] \in Whitespace
         THEN <<" ">> \o CollapseSpaces(From(s, 1 + Run(s, 1, Whitespace)))
         ELSE <<s[1]>> \o CollapseSpaces(Tail(s))

\* ------------------------------------------------------------------------
\* The Image-Marker Relocator
\* ------------------------------------------------------------------------
\* a mutation of RelocateSegment: the text after the image is not emitted
RelocateSegmentDropsAfter(segment) ==
    LET p == search(segment)
        e == MatchEnd(segment, p)
        before_and_image == strip(SubSeq(segment, 1, e))
    IN  IF p # 0
        THEN (IF before_and_image # <<>> THEN <<before_and_image>> ELSE <<>>)
        ELSE <<segment>>

\* a mutation of RelocateSegment: the text after the image is not stripped
RelocateSegmentKeepsSpace(segment) ==
    LET p == search(segment)
        e == MatchEnd(segment, p)
        before_and_image == strip(SubSeq(segment, 1, e))
        after_text == From(segment, e + 1)
    IN  IF p # 0
        THEN (IF before_and_image # <<>> THEN <<before_and_image>> ELSE <<>>)
                 \o (IF after_text # <<>> THEN <<after_text>> ELSE <<>>)
        ELSE <<segment>>

\* a mutation of RelocateSegment: the cut is made at match.start()
RelocateSegmentCutsBefore(segment) ==
    LET p == search(segment)
        before_text == strip(SubSeq(segment, 1, p - 1))
        image_and_after == strip(From(segment, p))
    IN  IF p # 0
        THEN (IF before_text # <<>> THEN <<before_text>> ELSE <<>>)
                 \o (IF image_and_after # <<>> THEN <<image_and_after>> ELSE <<>>)
        ELSE <<segment>>

\* the body of "for segment in segments": what one segment is replaced by
RelocateSegment(segment) ==
    LET p == search(segment)
        e == MatchEnd(segment, p)
        before_and_image == strip(SubSeq(segment, 1, e))
        after_text == strip(From(segment, e + 1))
    IN  IF p # 0
        THEN (IF before_and_image # <<>> THEN <<before_and_image>> ELSE <<>>)
                 \o (IF after_text # <<>> THEN <<after_text>> ELSE <<>>)
        ELSE <<segment>>

RECURSIVE RelocateSegments(_)
RelocateSegments(segs) ==
    IF segs = <<>> THEN <<>>
    ELSE RelocateSegment(segs[1]) \o RelocateSegments(Tail(segs))

split_markdown_for_video_with_image_split(t, max_words) ==
    RelocateSegments(PackBlocks(GroupBlocks(t), max_words))

\* ------------------------------------------------------------------------
\* The Segment Classifier
\* ------------------------------------------------------------------------
\* the ScriptSegment built for one raw segment
ScriptSegment(raw_text) ==
    LET p == search(raw_text)
    IN  IF p # 0
        THEN [text |-> strip(CollapseSpaces(strip(RemovePattern(raw_text)))),
              image_index |-> ToInt(raw_text, p + 5, MatchEnd(raw_text, p) - 2),
              has_image |-> TRUE,
              raw_text |-> raw_text]
        ELSE [text |-> strip(CollapseSpaces(strip(raw_text))),
              image_index |-> None,
              has_image |-> FALSE,
              raw_text |-> raw_text]

\* a mutation of ClassifySegments: the "if segment.text" filter is missing
RECURSIVE ClassifySegmentsKeepsEmpty(_)
ClassifySegmentsKeepsEmpty(raw_segments) ==
    IF raw_segments = <<>> THEN <<>>
    ELSE <<ScriptSegment(raw_segments[1])>>
             \o ClassifySegmentsKeepsEmpty(Tail(raw_segments))

\* "for raw_text in raw_segments" with the "if segment.text" filter
RECURSIVE ClassifySegments(_)
ClassifySegments(raw_segments) ==
    IF raw_segments = <<>> THEN <<>>
    ELSE LET segment == ScriptSegment(raw_segments[1])
         IN  (IF segment.text # <<>> THEN <<segment>> ELSE <<>>)
                 \o ClassifySegments(Tail(raw_segments))

get_script_segments(markdown_text, max_words) ==
    ClassifySegments(
        split_markdown_for_video_with_image_split(markdown_text, max_words))

\* ------------------------------------------------------------------------
\* process_markdown: image links become $n$, search links are removed
\* ------------------------------------------------------------------------
Https ==
    <<"h", "t", "t", "p", "s", ":", "/", "/">>

ZhimgCom ==
    <<"z", "h", "i", "m", "g", ".", "c", "o", "m", "/">>

DotJpg ==
    <<".", "j", "p", "g">>

ZhidaOpen ==
    <<"(", "h", "t", "t", "p", "s", ":", "/", "/", "z", "h", "i", "d", "a",
      ".", "z", "h", "i", "h", "u", ".", "c", "o", "m", "/", "s", "e", "a",
      "r", "c", "h", "?", "c", "o", "n", "t", "e", "n", "t", "_", "i", "d",
      "=">>

ZdToken ==
    <<"&", "z", "d", "_", "t", "o", "k", "e", "n", "=">>

\* lit occurs in s at index i
At(s, lit, i) ==
    i >= 1 /\ i + Len(lit) - 1 <= Len(s) /\ SubSeq(s, i, i + Len(lit) - 1) = lit

\* ".*?lit" tried at index from: the first index of lit reached without
\* crossing a line break ('.' matches no newline), or 0
FindOnLine(s, lit, from) ==
    LET found == {i \in from..(Len(s) - Len(lit) + 1) :
                     At(s, lit, i) /\ \A j \in from..(i - 1) : s[j] # "\n"}
    IN  IF found = {} THEN 0 ELSE Min(found)

\* r'https://.*?zhimg\.com/.*?\.jpg' tried at index p: the index of the last
\* character of the match, or 0. The lazy quantifiers take the first
\* 'zhimg.com/' and then the first '.jpg' of the line; a later 'zhimg.com/'
\* reaches no '.jpg' the first one does not reach.
MatchLinkEnd(s, p) ==
    IF ~At(s, Https, p) THEN 0
    ELSE LET q == FindOnLine(s, ZhimgCom, p + Len(Https))
         IN  IF q = 0 THEN 0
             ELSE LET r == FindOnLine(s, DotJpg, q + Len(ZhimgCom))
                  IN  IF r = 0 THEN 0 ELSE r + Len(DotJpg) - 1

\* re.findall(pattern, s): the matches from left to right, without overlap
RECURSIVE FindAllLinks(_)
FindAllLinks(s) ==
    LET starts == {p \in 1..Len(s) : MatchLinkEnd(s, p) # 0}
    IN  IF starts = {} THEN <<>>
        ELSE LET p == Min(starts)
             IN  <<SubSeq(s, p, MatchLinkEnd(s, p))>>
                     \o FindAllLinks(From(s, MatchLinkEnd(s, p) + 1))

\* str(n) of a positive integer
RECURSIVE Decimal(_)
Decimal(n) ==
    LET d == CHOOSE c \in Digits : DigitVal(c) = n % 10
    IN  IF n < 10 THEN <<d>> ELSE Decimal(n \div 10) \o <<d>>

\* f'${i+1}$' for the 1-based position n = i + 1
Placeholder(n) == <<"$">> \o Decimal(n) \o <<"$">>

\* a mutation of ReplaceFirst: str.replace without the count, every
\* occurrence is replaced
RECURSIVE ReplaceEvery(_, _, _)
ReplaceEvery(s, old, new) ==
    LET found == {i \in 1..Len(s) : At(s, old, i)}
    IN  IF found = {} THEN s
        ELSE SubSeq(s, 1, Min(found) - 1) \o new
                 \o ReplaceEvery(From(s, Min(found) + Len(old)), old, new)

\* s.replace(old, new, 1)
ReplaceFirst(s, old, new) ==
    LET found == {i \in 1..Len(s) : At(s, old, i)}
    IN  IF found = {} THEN s
        ELSE SubSeq(s, 1, Min(found) - 1) \o new
                 \o From(s, Min(found) + Len(old))

\* "for i, link in enumerate(image_links)", n = i + 1
RECURSIVE ReplaceLinks(_, _, _)
ReplaceLinks(cleaned_output, links, n) ==
    IF n > Len(links) THEN cleaned_output
    ELSE ReplaceLinks(ReplaceFirst(cleaned_output, links[n], Placeholder(n)),
                      links, n + 1)

\* the search link pattern tried at index p: the index of its ')' or 0
MatchSearchLinkEnd(s, p) ==
    IF ~At(s, ZhidaOpen, p) THEN 0
    ELSE LET q == FindOnLine(s, ZdToken, p + Len(ZhidaOpen))
         IN  IF q = 0 THEN 0
             ELSE FindOnLine(s, <<")">>, q + Len(ZdToken))

\* re.sub(search link pattern, '', s)
RECURSIVE RemoveSearchLinks(_)
RemoveSearchLinks(s) ==
    LET starts == {p \in 1..Len(s) : MatchSearchLinkEnd(s, p) # 0}
    IN  IF starts = {} THEN s
        ELSE LET p == Min(starts)
             IN  SubSeq(s, 1, p - 1)
                     \o RemoveSearchLinks(From(s, MatchSearchLinkEnd(s, p) + 1))

\* the pair (cleaned_output, image_links)
process_markdown(markdown_output) ==
    LET links == FindAllLinks(markdown_output)
    IN  [cleaned_output |->
             RemoveSearchLinks(ReplaceLinks(markdown_output, links, 1)),
         image_links |-> links]

\* ------------------------------------------------------------------------
\* Inputs
\* ------------------------------------------------------------------------
Marker(d) == MarkerOpen \o <<d, "$", ")">>

\* the pieces an input text is assembled from: words, separators, structure
\* prefixes, well-formed markers and a marker with a non-numeric index
Tokens ==
    {<<"a">>, <<" ">>, <<"\n">>, <<".">>, <<"-">>, <<"#">>,
     Marker("1"), Marker("2"), Marker("x")}

RECURSIVE Flatten(_)
Flatten(ts) == IF ts = <<>> THEN <<>> ELSE ts[1] \o Flatten(Tail(ts))

TokenSeqs == UNION {[1..n -> Tokens] : n \in 0..MaxTokens}

\* ------------------------------------------------------------------------
\* The pipeline as a state machine: one call of get_script_segments
\* ------------------------------------------------------------------------
VARIABLES
    extracted,          \* the article text process_markdown is given
    image_links,        \* the links process_markdown returns
    markdown_text,      \* the argument
    max_words,          \* the argument
    pc,                 \* the stage the call is at
    blocks,             \* the grouper's result
    segments,           \* the packer's result
    final_segments,     \* the relocator's result (raw_segments)
    script_segments,    \* the classifier's result
    segment,            \* the segment get_segment_visual is given
    image_reads,        \* the indices image_links was subscripted with
    image_url,          \* the link get_segment_visual resolved
    search_terms,       \* the terms generated for the segment
    calls,              \* the functions get_segment_visual has called
    video_path,         \* what get_segment_visual returns
    seg_i,              \* generate_article_video: the segment the loop is at
    segment_videos,     \* the visuals produced so far
    audio_file,         \* the voiceover's file
    subtitle_path,      \* the subtitle file's path
    files,              \* the files of the task that exist
    log,                \* the steps run so far, each with its outcome
    result              \* what generate_article_video returns

visualVars ==
    <<segment, image_reads, image_url, search_terms, calls, video_path>>

videoVars ==
    <<seg_i, segment_videos, audio_file, subtitle_path, files, log, result>>

vars == <<extracted, image_links, markdown_text, max_words, pc, blocks,
          segments, final_segments, script_segments, visualVars, videoVars>>

\* a path that is None
NonePath == "None"

\* no call of get_segment_visual is under way
VisualIdle ==
    /\ segment = [text |-> <<>>, image_index |-> None, has_image |-> FALSE,
                  raw_text |-> <<>>]
    /\ image_reads = <<>>
    /\ image_url = <<>>
    /\ search_terms = <<>>
    /\ calls = <<>>
    /\ video_path = NonePath

\* no call of generate_article_video is under way
VideoIdle ==
    /\ seg_i = 0
    /\ segment_videos = <<>>
    /\ audio_file = NonePath
    /\ subtitle_path = NonePath
    /\ files = {}
    /\ log = <<>>
    /\ result = NonePath

Start(t, m) ==
    /\ extracted = <<>>
    /\ image_links = <<>>
    /\ markdown_text = t
    /\ max_words = m
    /\ pc = "group"
    /\ blocks = <<>>
    /\ segments = <<>>
    /\ final_segments = <<>>
    /\ script_segments = <<>>
    /\ VisualIdle
    /\ VideoIdle

\* any text of up to MaxTokens tokens, any budget up to MaxWords
Init == \E ts \in TokenSeqs, m \in 1..MaxWords : Start(Flatten(ts), m)

\* documents: up to MaxBlocks paragraphs separated by a blank line
Paragraphs ==
    {<<"#", " ", "a">>,
     <<"a", " ", "a", ".">>,
     <<"a", " ">> \o Marker("1"),
     <<"a", ".", " ">> \o Marker("2"),
     <<"a", " ">> \o Marker("2") \o <<" ", "b">>,
     <<"-", "a", "\n", "-", "a">>}

RECURSIVE JoinParagraphs(_)
JoinParagraphs(ps) ==
    IF ps = <<>> THEN <<>>
    ELSE IF Len(ps) = 1 THEN ps[1]
    ELSE ps[1] \o <<"\n", "\n">> \o JoinParagraphs(Tail(ps))

Documents == UNION {[1..n -> Paragraphs] : n \in 1..MaxBlocks}

InitDoc ==
    \E ps \in Documents, m \in MaxWords..(MaxWords + 1) :
        Start(JoinParagraphs(ps), m)

\* texts assembled from whole markers and from the two halves of a marker
Pieces ==
    {Marker("0"), Marker("1"), Marker("2"), MarkerOpen, <<"2", "$", ")">>,
     <<"x", "$", ")">>, <<"$", ")">>, <<"a">>, <<" ">>}

PieceSeqs == UNION {[1..n -> Pieces] : n \in 0..MaxTokens}

InitPieces == \E ts \in PieceSeqs, m \in 1..MaxWords : Start(Flatten(ts), m)

\* prose: words that end a sentence or not, a word before a line break, bare
\* punctuation and a bare space
ProseTokens ==
    {<<"a", ".", " ">>, <<"b", " ">>, <<"b", "!", " ">>, <<"c">>,
     <<"a", "?", "\n">>, <<".">>, <<" ">>}

ProseSeqs == UNION {[1..n -> ProseTokens] : n \in 0..MaxTokens}

InitProse == \E ts \in ProseSeqs, m \in 1..MaxWords : Start(Flatten(ts), m)

\* texts given line by line: blank, plain, bullet, numbered and header lines
LineKinds ==
    {<<>>, <<"a">>, <<"a", ".", " ", "b">>, <<"-", "a">>, <<"-", " ", "a">>,
     <<"*", " ", "a", ".", " ", "b">>, <<"1", ".", " ", "a">>,
     <<"#", " ", "a">>}

LineSeqs == UNION {[1..n -> LineKinds] : n \in 0..MaxTokens}

InitLines == \E ls \in LineSeqs, m \in 1..MaxWords : Start(JoinLines(ls), m)

\* article texts: a whole image link and the parts of one, the image syntax
\* around a link, a search link without its closing parenthesis, a word and
\* a line break
ImageLink ==
    Https \o <<"p", "i", "c", ".">> \o ZhimgCom \o <<"a">> \o DotJpg

ArticleTokens ==
    {ImageLink, Https, ZhimgCom \o DotJpg, <<"!", "[", "]", "(">>, <<")">>,
     ZhidaOpen \o <<"1">> \o ZdToken \o <<"2">>, <<"a", " ">>, <<"\n">>}

ArticleSeqs == UNION {[1..n -> ArticleTokens] : n \in 0..MaxTokens}

\* max_words=150, the default get_script_segments is called with
DefaultMaxWords == 150

\* process_article_to_segments at step 3, before process_markdown
InitArticle ==
    \E ts \in ArticleSeqs :
        /\ extracted = Flatten(ts)
        /\ image_links = <<>>
        /\ markdown_text = <<>>
        /\ max_words = DefaultMaxWords
        /\ pc = "process"
        /\ blocks = <<>>
        /\ segments = <<>>
        /\ final_segments = <<>>
        /\ script_segments = <<>>
        /\ VisualIdle
        /\ VideoIdle

ProcessMarkdown ==
    /\ pc = "process"
    /\ markdown_text' = process_markdown(extracted).cleaned_output
    /\ image_links' = process_markdown(extracted).image_links
    /\ pc' = "group"
    /\ UNCHANGED <<visualVars, videoVars, extracted, max_words, blocks,
                   segments, final_segments, script_segments>>

Group ==
    /\ pc = "group"
    /\ blocks' = GroupBlocks(markdown_text)
    /\ pc' = "pack"
    /\ UNCHANGED <<visualVars, videoVars, extracted, image_links,
                   markdown_text, max_words, segments, final_segments,
                   script_segments>>

Pack ==
    /\ pc = "pack"
    /\ segments' = PackBlocks(blocks, max_words)
    /\ pc' = "relocate"
    /\ UNCHANGED <<visualVars, videoVars, extracted, image_links,
                   markdown_text, max_words, blocks, final_segments,
                   script_segments>>

Relocate ==
    /\ pc = "relocate"
    /\ final_segments' = RelocateSegments(segments)
    /\ pc' = "classify"
    /\ UNCHANGED <<visualVars, videoVars, extracted, image_links,
                   markdown_text, max_words, blocks, segments,
                   script_segments>>

Classify ==
    /\ pc = "classify"
    /\ script_segments' = ClassifySegments(final_segments)
    /\ pc' = "done"
    /\ UNCHANGED <<visualVars, videoVars, extracted, image_links,
                   markdown_text, max_words, blocks, segments,
                   final_segments>>

Next == Group \/ Pack \/ Relocate \/ Classify

Spec == Init /\ [][Next]_vars

SpecDoc == InitDoc /\ [][Next]_vars

SpecPieces == InitPieces /\ [][Next]_vars

SpecProse == InitProse /\ [][Next]_vars

SpecLines == InitLines /\ [][Next]_vars

\* the call of process_markdown on its own
NextMarkdown == ProcessMarkdown

SpecMarkdown == InitArticle /\ [][NextMarkdown]_vars

\* ------------------------------------------------------------------------
\* get_segment_visual (article_video.py)
\* ------------------------------------------------------------------------
\* list[i]: i counts from 0, a negative i counts from the end, any other i
\* raises IndexError
PyIndexable(list, i) == -Len(list) <= i /\ i < Len(list)

PyItem(list, i) == IF i >= 0 THEN list[i + 1] ELSE list[Len(list) + i + 1]

IndexInRangeNoLowerBound(image_idx, n) == image_idx < n

\* 0 <= image_idx < len(image_links)
IndexInRange(image_idx, n) == 0 <= image_idx /\ image_idx < n

\* the paths the collaborators hand back
ImagePath == "image.jpg"
SegmentImgVideo == "segment-img.mp4"
StockVideo == "stock.mp4"

\* the links of an article: two links that differ
SampleLinks == {ImageLink, Https \o ZhimgCom \o <<"b">> \o DotJpg}

LinkLists == UNION {[1..n -> SampleLinks] : n \in 0..MaxLinks}

\* any ScriptSegment: the dataclass takes has_image and image_index apart
VisualSegments ==
    {[text |-> <<"a">>, image_index |-> i, has_image |-> h,
      raw_text |-> <<"a">>] :
        i \in {None} \cup (0..(MaxLinks + 1)), h \in BOOLEAN}

\* get_segment_visual(segment, image_links, ...) is entered
EnterVisual(sg) ==
    /\ segment = sg
    /\ image_reads = <<>>
    /\ image_url = <<>>
    /\ search_terms = <<>>
    /\ calls = <<>>
    /\ video_path = NonePath

InitVisual ==
    \E sg \in VisualSegments, ls \in LinkLists :
        /\ extracted = <<>>
        /\ image_links = ls
        /\ markdown_text = <<>>
        /\ max_words = DefaultMaxWords
        /\ pc = "visual"
        /\ blocks = <<>>
        /\ segments = <<>>
        /\ final_segments = <<>>
        /\ script_segments = <<>>
        /\ EnterVisual(sg)
        /\ VideoIdle

pipelineVars ==
    <<extracted, image_links, markdown_text, max_words, blocks, segments,
      final_segments, script_segments>>

\* if segment.has_image and segment.image_index is not None: ... the lookup
ResolveImage ==
    /\ pc = "visual"
    /\ IF segment.has_image /\ segment.image_index # None
       THEN LET image_idx == segment.image_index - 1
            IN  IF IndexInRange(image_idx, Len(image_links))
                THEN /\ image_reads' = Append(image_reads, image_idx)
                     /\ IF PyIndexable(image_links, image_idx)
                        THEN /\ image_url' = PyItem(image_links, image_idx)
                             /\ pc' = "download"
                        ELSE /\ image_url' = image_url
                             /\ pc' = "raised"
                ELSE /\ pc' = "search"
                     /\ UNCHANGED <<image_reads, image_url>>
       ELSE /\ pc' = "search"
            /\ UNCHANGED <<image_reads, image_url>>
    /\ UNCHANGED <<pipelineVars, videoVars, segment, search_terms, calls,
                   video_path>>

\* image_path = download_image(image_url, task_dir): a path, or None on
\* any failure; without a path the search below takes over
DownloadImage ==
    /\ pc = "download"
    /\ calls' = Append(calls, "download_image")
    /\ \E image_path \in {ImagePath, NonePath} :
           pc' = IF image_path # NonePath THEN "convert" ELSE "search"
    /\ UNCHANGED <<pipelineVars, videoVars, segment, image_reads, image_url,
                   search_terms, video_path>>

\* return create_video_from_image(...): the video's path, or None
CreateVideoFromImage ==
    /\ pc = "convert"
    /\ calls' = Append(calls, "create_video_from_image")
    /\ video_path' \in {SegmentImgVideo, NonePath}
    /\ pc' = "returned"
    /\ UNCHANGED <<pipelineVars, videoVars, segment, image_reads, image_url,
                   search_terms>>

\* search_terms = generate_segment_search_terms(segment.text): a list, empty
\* on any failure; if not search_terms: return None
GenerateSearchTerms ==
    /\ pc = "search"
    /\ calls' = Append(calls, "generate_segment_search_terms")
    /\ search_terms' \in {<<>>, <<"term">>}
    /\ IF search_terms' = <<>>
       THEN pc' = "returned"
       ELSE pc' = "videos"
    /\ video_path' = NonePath
    /\ UNCHANGED <<pipelineVars, videoVars, segment, image_reads, image_url>>

\* downloaded_videos = material.download_videos(...): the first video, None
\* for an empty list
DownloadVideos ==
    /\ pc = "videos"
    /\ calls' = Append(calls, "download_videos")
    /\ \E downloaded_videos \in {<<>>, <<StockVideo>>} :
           video_path' = IF downloaded_videos # <<>>
                         THEN downloaded_videos[1]
                         ELSE NonePath
    /\ pc' = "returned"
    /\ UNCHANGED <<pipelineVars, videoVars, segment, image_reads, image_url,
                   search_terms>>

\* material.download_videos raises: get_segment_visual has no handler
DownloadVideosRaises ==
    /\ pc = "videos"
    /\ calls' = Append(calls, "download_videos")
    /\ pc' = "raised"
    /\ UNCHANGED <<pipelineVars, videoVars, segment, image_reads, image_url,
                   search_terms, video_path>>

NextVisual ==
    \/ ResolveImage
    \/ DownloadImage
    \/ CreateVideoFromImage
    \/ GenerateSearchTerms
    \/ DownloadVideos
    \/ DownloadVideosRaises

SpecVisual == InitVisual /\ [][NextVisual]_vars

\* ------------------------------------------------------------------------
\* generate_article_video (generate_article_video.py)
\* ------------------------------------------------------------------------
\* the files the steps write
AudioFile == "audio.mp3"
SubtitleFile == "subtitle.srt"
CombinedVideoPath == "combined_video.mp4"
WithSubsPath == "title_with_subs.mp4"

\* os.path.exists(path) for the files of the task
exists(path) == path \in files

\* a log line: a step and whether it did what it is for
Ok(step) == [step |-> step, ok |-> TRUE]

Failed(step) == [step |-> step, ok |-> FALSE]

\* the segments of an article: plain text, text with the first image, text
\* with an image the article does not have
ArticleSegments ==
    {ScriptSegment(<<"a">>),
     ScriptSegment(<<"a", " ">> \o Marker("1")),
     ScriptSegment(<<"a", " ">> \o Marker("9"))}

SegmentLists == UNION {[1..n -> ArticleSegments] : n \in 0..MaxSegments}

\* generate_article_video(article_url, ...) is entered
InitVideo ==
    /\ extracted = <<>>
    /\ image_links = <<>>
    /\ markdown_text = <<>>
    /\ max_words = DefaultMaxWords
    /\ pc = "parse"
    /\ blocks = <<>>
    /\ segments = <<>>
    /\ final_segments = <<>>
    /\ script_segments = <<>>
    /\ VisualIdle
    /\ VideoIdle

stageVars ==
    <<extracted, markdown_text, max_words, blocks, segments, final_segments>>

\* step 1: segments, image_links, title =
\* process_article_to_segments_sync(article_url)
ParseArticle ==
    /\ pc = "parse"
    /\ \E ss \in SegmentLists, ls \in LinkLists :
           /\ script_segments' = ss
           /\ image_links' = ls
    /\ log' = Append(log, Ok("parse"))
    /\ pc' = "setup"
    /\ UNCHANGED <<stageVars, visualVars, seg_i, segment_videos, audio_file,
                   subtitle_path, files, result>>

\* except Exception: return None
ParseArticleRaises ==
    /\ pc = "parse"
    /\ log' = Append(log, Failed("parse"))
    /\ result' = NonePath
    /\ pc' = "finished"
    /\ UNCHANGED <<stageVars, image_links, script_segments, visualVars, seg_i,
                   segment_videos, audio_file, subtitle_path, files>>

\* os.makedirs(task_dir, exist_ok=True); segment_videos = []
SetupTaskDir ==
    /\ pc = "setup"
    /\ seg_i' = 0
    /\ segment_videos' = <<>>
    /\ pc' = "loop"
    /\ UNCHANGED <<stageVars, image_links, script_segments, visualVars,
                   audio_file, subtitle_path, files, log, result>>

\* os.makedirs raises: no handler, the exception leaves the function
SetupTaskDirRaises ==
    /\ pc = "setup"
    /\ pc' = "aborted"
    /\ UNCHANGED <<stageVars, image_links, script_segments, visualVars,
                   videoVars>>

\* for i, segment in enumerate(segments, 1): get_segment_visual is called
BeginSegment ==
    /\ pc = "loop"
    /\ seg_i < Len(script_segments)
    /\ seg_i' = seg_i + 1
    /\ segment' = script_segments[seg_i + 1]
    /\ image_reads' = <<>>
    /\ image_url' = <<>>
    /\ search_terms' = <<>>
    /\ calls' = <<>>
    /\ video_path' = NonePath
    /\ pc' = "visual"
    /\ UNCHANGED <<stageVars, image_links, script_segments, segment_videos,
                   audio_file, subtitle_path, files, log, result>>

\* get_segment_visual is left: its locals are gone
LeaveVisual ==
    /\ segment' = [text |-> <<>>, image_index |-> None, has_image |-> FALSE,
                   raw_text |-> <<>>]
    /\ image_reads' = <<>>
    /\ image_url' = <<>>
    /\ search_terms' = <<>>
    /\ calls' = <<>>
    /\ video_path' = NonePath

\* if video_path and os.path.exists(video_path): segment_videos.append(...)
CollectVisual ==
    /\ pc = "returned"
    /\ \E on_disk \in BOOLEAN :
           IF video_path # NonePath /\ on_disk
           THEN /\ segment_videos' = Append(segment_videos, video_path)
                /\ log' = Append(log, Ok("visual"))
           ELSE /\ segment_videos' = segment_videos
                /\ log' = Append(log, Failed("visual"))
    /\ LeaveVisual
    /\ pc' = "loop"
    /\ UNCHANGED <<stageVars, image_links, script_segments, seg_i, audio_file,
                   subtitle_path, files, result>>

\* except Exception: the error is logged and the loop goes on
CatchVisual ==
    /\ pc = "raised"
    /\ log' = Append(log, Failed("visual"))
    /\ LeaveVisual
    /\ pc' = "loop"
    /\ UNCHANGED <<stageVars, image_links, script_segments, seg_i,
                   segment_videos, audio_file, subtitle_path, files, result>>

\* a mutation of EndLoop: the run goes on without any visual
EndLoopNoCheck ==
    /\ pc = "loop"
    /\ seg_i >= Len(script_segments)
    /\ pc' = "voiceover"
    /\ UNCHANGED <<stageVars, image_links, script_segments, visualVars,
                   videoVars>>

\* if not segment_videos: return None
EndLoop ==
    /\ pc = "loop"
    /\ seg_i >= Len(script_segments)
    /\ IF segment_videos = <<>>
       THEN /\ result' = NonePath
            /\ pc' = "finished"
       ELSE /\ result' = result
            /\ pc' = "voiceover"
    /\ UNCHANGED <<stageVars, image_links, script_segments, visualVars, seg_i,
                   segment_videos, audio_file, subtitle_path, files, log>>

\* step 3: audio_file, audio_duration, sub_maker =
\* voice.create_voiceover(...); without a file that exists: return None
CreateVoiceover ==
    /\ pc = "voiceover"
    /\ \E returned \in {NonePath, AudioFile}, on_disk \in BOOLEAN :
           /\ audio_file' = returned
           /\ files' = IF returned # NonePath /\ on_disk
                       THEN files \cup {returned}
                       ELSE files
    /\ IF audio_file' = NonePath \/ audio_file' \notin files'
       THEN /\ log' = Append(log, Failed("voiceover"))
            /\ result' = NonePath
            /\ pc' = "finished"
       ELSE /\ log' = Append(log, Ok("voiceover"))
            /\ result' = result
            /\ pc' = "subtitle"
    /\ UNCHANGED <<stageVars, image_links, script_segments, visualVars, seg_i,
                   segment_videos, subtitle_path>>

\* except Exception: return None
CreateVoiceoverRaises ==
    /\ pc = "voiceover"
    /\ log' = Append(log, Failed("voiceover"))
    /\ result' = NonePath
    /\ pc' = "finished"
    /\ UNCHANGED <<stageVars, image_links, script_segments, visualVars, seg_i,
                   segment_videos, audio_file, subtitle_path, files>>

\* step 4: subtitle_path = subtitle.create_subtitle(...); a missing file
\* is a warning
CreateSubtitle ==
    /\ pc = "subtitle"
    /\ \E returned \in {NonePath, SubtitleFile}, on_disk \in BOOLEAN :
           /\ subtitle_path' = returned
           /\ files' = IF returned # NonePath /\ on_disk
                       THEN files \cup {returned}
                       ELSE files
    /\ log' = IF subtitle_path' # NonePath /\ subtitle_path' \in files'
              THEN Append(log, Ok("subtitle"))
              ELSE Append(log, Failed("subtitle"))
    /\ pc' = "combine"
    /\ UNCHANGED <<stageVars, image_links, script_segments, visualVars, seg_i,
                   segment_videos, audio_file, result>>

\* except Exception: a warning, subtitle_path stays None
CreateSubtitleRaises ==
    /\ pc = "subtitle"
    /\ log' = Append(log, Failed("subtitle"))
    /\ pc' = "combine"
    /\ UNCHANGED <<stageVars, image_links, script_segments, visualVars, seg_i,
                   segment_videos, audio_file, subtitle_path, files, result>>

\* step 5: video.combine_videos(...); if not
\* os.path.exists(combined_video_path): raise; except Exception: return None
CombineVideos ==
    /\ pc = "combine"
    /\ \E on_disk \in BOOLEAN :
           files' = IF on_disk THEN files \cup {CombinedVideoPath} ELSE files
    /\ IF CombinedVideoPath \notin files'
       THEN /\ log' = Append(log, Failed("combine"))
            /\ result' = NonePath
            /\ pc' = "finished"
       ELSE /\ log' = Append(log, Ok("combine"))
            /\ result' = result
            /\ pc' = "finalize"
    /\ UNCHANGED <<stageVars, image_links, script_segments, visualVars, seg_i,
                   segment_videos, audio_file, subtitle_path>>

\* video.combine_videos raises: return None
CombineVideosRaises ==
    /\ pc = "combine"
    /\ log' = Append(log, Failed("combine"))
    /\ result' = NonePath
    /\ pc' = "finished"
    /\ UNCHANGED <<stageVars, image_links, script_segments, visualVars, seg_i,
                   segment_videos, audio_file, subtitle_path, files>>

\* step 6 with a subtitle file: video.add_subtitles(...); without the
\* output file the combined video is the final one
AddSubtitles ==
    /\ pc = "finalize"
    /\ subtitle_path # NonePath /\ exists(subtitle_path)
    /\ \E on_disk \in BOOLEAN :
           files' = IF on_disk THEN files \cup {WithSubsPath} ELSE files
    /\ IF WithSubsPath \in files'
       THEN /\ log' = Append(log, Ok("burn"))
            /\ result' = WithSubsPath
       ELSE /\ log' = Append(log, Failed("burn"))
            /\ result' = CombinedVideoPath
    /\ pc' = "finished"
    /\ UNCHANGED <<stageVars, image_links, script_segments, visualVars, seg_i,
                   segment_videos, audio_file, subtitle_path>>

\* video.add_subtitles raises: final_video_path = combined_video_path
AddSubtitlesRaises ==
    /\ pc = "finalize"
    /\ subtitle_path # NonePath /\ exists(subtitle_path)
    /\ log' = Append(log, Failed("burn"))
    /\ result' = CombinedVideoPath
    /\ pc' = "finished"
    /\ UNCHANGED <<stageVars, image_links, script_segments, visualVars, seg_i,
                   segment_videos, audio_file, subtitle_path, files>>

\* step 6 without a subtitle file: final_video_path = combined_video_path
NoSubtitles ==
    /\ pc = "finalize"
    /\ ~(subtitle_path # NonePath /\ exists(subtitle_path))
    /\ result' = CombinedVideoPath
    /\ pc' = "finished"
    /\ UNCHANGED <<stageVars, image_links, script_segments, visualVars, seg_i,
                   segment_videos, audio_file, subtitle_path, files, log>>

NextVideo ==
    \/ ParseArticle
    \/ ParseArticleRaises
    \/ SetupTaskDir
    \/ SetupTaskDirRaises
    \/ BeginSegment
    \/ ResolveImage
    \/ DownloadImage
    \/ CreateVideoFromImage
    \/ GenerateSearchTerms
    \/ DownloadVideos
    \/ DownloadVideosRaises
    \/ CollectVisual
    \/ CatchVisual
    \/ EndLoop
    \/ CreateVoiceover
    \/ CreateVoiceoverRaises
    \/ CreateSubtitle
    \/ CreateSubtitleRaises
    \/ CombineVideos
    \/ CombineVideosRaises
    \/ AddSubtitles
    \/ AddSubtitlesRaises
    \/ NoSubtitles

SpecVideo == InitVideo /\ [][NextVideo]_vars

\* ------------------------------------------------------------------------
\* Vocabulary of the properties
\* ------------------------------------------------------------------------
Done == pc = "done"

IsInk(c) == c \notin Whitespace

\* the non-whitespace content of a text
Ink(s) == SelectSeq(s, IsInk)

\* s[p..e] is one image marker: ![]($ digits $)
IsMarkerSpan(s, p, e) ==
    /\ 1 <= p /\ e <= Len(s) /\ e >= p + 7
    /\ SubSeq(s, p, p + 4) = MarkerOpen
    /\ \A i \in (p + 5)..(e - 2) : s[i] \in Digits
    /\ s[e - 1] = "$" /\ s[e] = ")"

MarkerSpans(s) ==
    LET opens == {p \in 1..(Len(s) - 7) : SubSeq(s, p, p + 4) = MarkerOpen}
    IN  UNION {{<<p, e>> : e \in {e \in (p + 7)..Len(s) : IsMarkerSpan(s, p, e)}} :
                  p \in opens}

HasMarker(s) == MarkerSpans(s) # {}

\* the positions of s that lie inside an image marker
MarkerInk(s) == UNION {sp[1]..sp[2] : sp \in MarkerSpans(s)}

RECURSIVE Keep(_, _, _)
Keep(s, i, keep) ==
    IF i > Len(s) THEN <<>>
    ELSE (IF i \in keep THEN <<s[i]>> ELSE <<>>) \o Keep(s, i + 1, keep)

\* s with every image marker cut out
WithoutMarkers(s) == Keep(s, 1, (1..Len(s)) \ MarkerInk(s))

\* a sentence end followed by whitespace, strictly inside s
HasSentenceBreak(s) ==
    \E i \in 1..(Len(s) - 1) : s[i] \in SentenceEnd /\ s[i + 1] \in Whitespace

RECURSIVE Concat(_)
Concat(ss) == IF ss = <<>> THEN <<>> ELSE ss[1] \o Concat(Tail(ss))

Texts == [j \in 1..Len(script_segments) |-> script_segments[j].text]

\* ------------------------------------------------------------------------
\* C1. Budget respect: a returned segment whose text has more than max_words
\* words is cut from one sentence (its raw text holds no sentence end followed
\* by whitespace); every other returned segment has at most max_words words.
\* ------------------------------------------------------------------------
C1_BudgetRespect ==
    Done =>
        \A j \in 1..Len(script_segments) :
            WordCount(script_segments[j].text) > max_words
                => ~HasSentenceBreak(script_segments[j].raw_text)

\* a sentence over the budget was emitted whole, and carries an image
C1_Witness ==
    /\ Done
    /\ \E j \in 1..Len(script_segments) :
           /\ WordCount(script_segments[j].text) > max_words
           /\ script_segments[j].has_image

\* ------------------------------------------------------------------------
\* C2. Lossless, order-preserving segmentation: the segments returned by
\* split_markdown_for_video_with_image_split, concatenated in order, have the
\* non-whitespace content of the input; the returned text fields, in order,
\* have the non-whitespace content of the input with its markers removed.
\* ------------------------------------------------------------------------
C2_Lossless ==
    /\ pc \in {"classify", "done"} =>
           Ink(Concat(final_segments)) = Ink(markdown_text)
    /\ Done => Ink(Concat(Texts)) = Ink(WithoutMarkers(markdown_text))

\* one block was cut by the packer and one of its segments by the relocator
C2_Witness ==
    /\ Done
    /\ Len(blocks) = 1
    /\ Len(segments) = 2
    /\ Len(final_segments) = 3
    /\ Len(script_segments) = 2

\* ------------------------------------------------------------------------
\* C3. Marker stays attached to preceding text: a marker preceded by
\* narratable text inside its logical block is returned in one segment with
\* that text (has_image, the marker's index, a non-empty text that ends the
\* text before the marker, the marker closing the raw text), also when the
\* block is over the budget. Stated for blocks that hold one marker.
\* ------------------------------------------------------------------------
Letters == {"a", "b", "x"}

Narratable(s) == \E i \in 1..Len(s) : s[i] \in Letters

IsSuffix(u, s) == Len(u) <= Len(s) /\ SubSeq(s, Len(s) - Len(u) + 1, Len(s)) = u

\* the marker block[p..e] is returned attached to the text before it
AttachedToPrecedingText(block, p, e) ==
    \E j \in 1..Len(script_segments) :
        LET seg == script_segments[j]
        IN  /\ seg.has_image
            /\ seg.image_index = ToInt(block, p + 5, e - 2)
            /\ seg.text # <<>>
            /\ IsSuffix(Ink(seg.text), Ink(SubSeq(block, 1, p - 1)))
            /\ IsSuffix(SubSeq(block, p, e), seg.raw_text)

C3_MarkerStaysAttached ==
    Done =>
        \A b \in 1..Len(blocks) :
            \A sp \in MarkerSpans(blocks[b]) :
                (/\ Cardinality(MarkerSpans(blocks[b])) = 1
                 /\ Narratable(SubSeq(blocks[b], 1, sp[1] - 1)))
                    => AttachedToPrecedingText(blocks[b], sp[1], sp[2])

\* ------------------------------------------------------------------------
\* C4. Mixed document: when every block is within the budget and either holds
\* no marker or ends in its only marker, preceded by text, the segments with
\* has_image are as many as the markers and their image_index values are the
\* marker indices in the order of the input.
\* ------------------------------------------------------------------------
\* the indices of the markers of s, in order of appearance
RECURSIVE NumbersOf(_, _)
NumbersOf(s, spans) ==
    IF spans = {} THEN <<>>
    ELSE LET sp == CHOOSE x \in spans : \A y \in spans : x[1] <= y[1]
         IN  <<ToInt(s, sp[1] + 5, sp[2] - 2)>> \o NumbersOf(s, spans \ {sp})

MarkerNumbers(s) == NumbersOf(s, MarkerSpans(s))

RECURSIVE ImageIndices(_)
ImageIndices(ss) ==
    IF ss = <<>> THEN <<>>
    ELSE (IF ss[1].has_image THEN <<ss[1].image_index>> ELSE <<>>)
             \o ImageIndices(Tail(ss))

EndsInOneMarker(block) ==
    /\ Cardinality(MarkerSpans(block)) = 1
    /\ \A sp \in MarkerSpans(block) :
           sp[2] = Len(block) /\ Narratable(SubSeq(block, 1, sp[1] - 1))

MixedDocument ==
    \A b \in 1..Len(blocks) :
        /\ WordCount(blocks[b]) <= max_words
        /\ ~HasMarker(blocks[b]) \/ EndsInOneMarker(blocks[b])

C4_MixedDocument ==
    (Done /\ MixedDocument) =>
        ImageIndices(script_segments) = MarkerNumbers(markdown_text)

\* a header, two plain paragraphs and two paragraphs ending in markers 1, 2
C4_Witness ==
    /\ Done /\ MixedDocument
    /\ Len(blocks) = 5
    /\ startswith(blocks[1], "#")
    /\ Len(script_segments) >= 4
    /\ ImageIndices(script_segments) = <<1, 2>>
    /\ Cardinality({b \in 1..Len(blocks) : HasMarker(blocks[b])}) = 2

\* ------------------------------------------------------------------------
\* C5. Marker extraction: a segment that reaches the classifier with exactly
\* one match of the marker pattern gives a ScriptSegment with has_image, the
\* marker's index as image_index, and a text free of the marker pattern,
\* whatever surrounds the marker.
\* ------------------------------------------------------------------------
C5_MarkerExtraction ==
    Done =>
        \A j \in 1..Len(script_segments) :
            LET seg == script_segments[j]
            IN  Cardinality(MarkerSpans(seg.raw_text)) = 1 =>
                    /\ seg.has_image
                    /\ <<seg.image_index>> = MarkerNumbers(seg.raw_text)
                    /\ ~HasMarker(seg.text)

\* ------------------------------------------------------------------------
\* C6. Marker mid-text split: the relocator replaces, in place, each packed
\* segment that holds a marker by the trimmed text up to the end of its first
\* marker (if not empty) and then the trimmed rest (if not empty); a segment
\* without marker passes unchanged. The block "a ![]($2$) b" gives the two
\* ScriptSegments {"a", image 2} and {"b", no image}.
\* ------------------------------------------------------------------------
RECURSIVE DropLeadingSpace(_)
DropLeadingSpace(s) ==
    IF s # <<>> /\ s[1] \in Whitespace THEN DropLeadingSpace(Tail(s)) ELSE s

Reverse(s) == [i \in 1..Len(s) |-> s[Len(s) + 1 - i]]

Trimmed(s) == Reverse(DropLeadingSpace(Reverse(DropLeadingSpace(s))))

IfNotEmpty(s) == IF s = <<>> THEN <<>> ELSE <<s>>

\* what the contract puts in the place of one packed segment
SplitAtFirstMarker(seg) ==
    IF ~HasMarker(seg) THEN <<seg>>
    ELSE LET first == CHOOSE x \in MarkerSpans(seg) :
                          \A y \in MarkerSpans(seg) : x[1] <= y[1]
         IN  IfNotEmpty(Trimmed(SubSeq(seg, 1, first[2])))
                 \o IfNotEmpty(Trimmed(SubSeq(seg, first[2] + 1, Len(seg))))

MidTextExample == <<"a", " ">> \o Marker("2") \o <<" ", "b">>

C6_MarkerMidTextSplit ==
    /\ pc \in {"classify", "done"} =>
           final_segments =
               Concat([k \in 1..Len(segments) |-> SplitAtFirstMarker(segments[k])])
    /\ (Done /\ markdown_text = MidTextExample) =>
           script_segments =
               <<[text |-> <<"a">>, image_index |-> 2, has_image |-> TRUE,
                  raw_text |-> <<"a", " ">> \o Marker("2")],
                 [text |-> <<"b">>, image_index |-> None, has_image |-> FALSE,
                  raw_text |-> <<"b">>]>>

\* the example block was split, and within its budget
C6_Witness ==
    /\ Done
    /\ markdown_text = MidTextExample
    /\ WordCount(markdown_text) <= max_words
    /\ segments = <<MidTextExample>>
    /\ Len(final_segments) = 2

\* ------------------------------------------------------------------------
\* C7. No loss on within-budget input: an input that forms one logical block,
\* holds no marker and has at most max_words words is emitted by the packer
\* as one segment, the trimmed input, and returned as one ScriptSegment
\* without image whose text is the input's words joined by single spaces.
\* ------------------------------------------------------------------------
\* the words of s (maximal runs of non-whitespace), joined by single spaces
RECURSIVE SingleSpaced(_)
SingleSpaced(s) ==
    LET t == DropLeadingSpace(s)
        n == Run(t, 1, {c \in {t[i] : i \in 1..Len(t)} : c \notin Whitespace})
        rest == DropLeadingSpace(SubSeq(t, n + 1, Len(t)))
    IN  IF t = <<>> THEN <<>>
        ELSE IF rest = <<>> THEN SubSeq(t, 1, n)
        ELSE SubSeq(t, 1, n) \o <<" ">> \o SingleSpaced(rest)

SingleBlockWithinBudget ==
    /\ Len(blocks) = 1
    /\ ~HasMarker(markdown_text)
    /\ WordCount(markdown_text) <= max_words

C7_NoLossWithinBudget ==
    (Done /\ SingleBlockWithinBudget) =>
        /\ segments = <<Trimmed(markdown_text)>>
        /\ script_segments =
               <<[text |-> SingleSpaced(markdown_text), image_index |-> None,
                  has_image |-> FALSE, raw_text |-> Trimmed(markdown_text)]>>

\* a block of exactly max_words words over two lines, returned in one piece
C7_Witness ==
    /\ Done /\ SingleBlockWithinBudget
    /\ WordCount(markdown_text) = max_words
    /\ HasSentenceBreak(markdown_text)
    /\ script_segments[1].text # script_segments[1].raw_text

\* ------------------------------------------------------------------------
\* C8. No empty output text: the returned list is the relocated sequence, in
\* order, restricted to the segments with narratable content (non-whitespace
\* outside the markers); no returned text is empty; each raw_text is the
\* segment as the classifier received it.
\* ------------------------------------------------------------------------
HasNarratableInk(seg) ==
    \E i \in 1..Len(seg) : seg[i] \notin Whitespace /\ i \notin MarkerInk(seg)

RawTexts == [j \in 1..Len(script_segments) |-> script_segments[j].raw_text]

C8_NoEmptyText ==
    Done =>
        /\ RawTexts = SelectSeq(final_segments, HasNarratableInk)
        /\ \A j \in 1..Len(script_segments) : script_segments[j].text # <<>>

\* a segment made of a marker alone was dropped, the one before it was kept
C8_Witness ==
    /\ Done
    /\ \E k \in 2..Len(final_segments) :
           /\ HasMarker(final_segments[k])
           /\ ~HasNarratableInk(final_segments[k])
           /\ HasNarratableInk(final_segments[k - 1])
    /\ Len(script_segments) = Len(final_segments) - 1

IsMalformedSpan(s, p, e) ==
    /\ 1 <= p /\ e <= Len(s) /\ e >= p + 6
    /\ SubSeq(s, p, p + 4) = MarkerOpen
    /\ \A i \in (p + 5)..(e - 2) : s[i] \in Letters
    /\ s[e - 1] = "$" /\ s[e] = ")"

MalformedSpans(s) ==
    LET opens == {p \in 1..(Len(s) - 6) : SubSeq(s, p, p + 4) = MarkerOpen}
    IN  UNION {{<<p, e>> : e \in {e \in (p + 6)..Len(s) : IsMalformedSpan(s, p, e)}} :
                  p \in opens}

C10_MalformedMarkers ==
    Done =>
        /\ \A j \in 1..Len(script_segments) :
               LET seg == script_segments[j]
               IN  /\ seg.has_image <=> HasMarker(seg.raw_text)
                   /\ ~HasMarker(seg.raw_text) => seg.image_index = None
                   /\ Cardinality(MalformedSpans(seg.text))
                          >= Cardinality(MalformedSpans(seg.raw_text))
        /\ ~HasMarker(markdown_text) =>
               /\ final_segments = segments
               /\ Ink(Concat(Texts)) = Ink(markdown_text)

\* a text with both malformed shapes and no marker came out as plain prose
C10_Witness ==
    /\ Done
    /\ ~HasMarker(markdown_text)
    /\ \E sp \in MalformedSpans(markdown_text) : sp[2] = sp[1] + 6
    /\ \E sp \in MalformedSpans(markdown_text) : sp[2] = sp[1] + 7
    /\ script_segments # <<>>

\* ------------------------------------------------------------------------
\* C11. image_index is 1-based and positive: in every returned ScriptSegment
\* image_index is None or an integer >= 1, it is not None exactly when
\* has_image holds, and that is exactly when raw_text holds a marker.
\* ------------------------------------------------------------------------
C11_PositiveImageIndex ==
    Done =>
        \A j \in 1..Len(script_segments) :
            LET seg == script_segments[j]
            IN  /\ seg.image_index = None \/ seg.image_index >= 1
                /\ seg.image_index # None <=> seg.has_image
                /\ seg.has_image <=> HasMarker(seg.raw_text)

\* ------------------------------------------------------------------------
\* C12. Oversized atomic unit: in a prose text that forms one block, the
\* chunks over the budget are exactly the sentences over the budget, each
\* whole and alone, in order: such a sentence is neither cut nor merged with
\* the sentence before or after it.
\* ------------------------------------------------------------------------
\* the positions of s where a sentence ends: . ! or ? before whitespace
SentenceHits(s) ==
    {i \in 1..(Len(s) - 1) : s[i] \in SentenceEnd /\ s[i + 1] \in Whitespace}

\* the sentences of s from position start on, each with its punctuation
RECURSIVE SentencesFrom(_, _)
SentencesFrom(s, start) ==
    LET later == {i \in SentenceHits(s) : i >= start}
    IN  IF later = {} THEN IfNotEmpty(Trimmed(SubSeq(s, start, Len(s))))
        ELSE LET h == CHOOSE i \in later : \A j \in later : i <= j
             IN  <<Trimmed(SubSeq(s, start, h))>> \o SentencesFrom(s, h + 1)

ProseSentences(s) == SentencesFrom(s, 1)

\* the first non-blank character of the line marks a list item or a header
IsBulletLine(line) ==
    LET t == DropLeadingSpace(line)
    IN  /\ t # <<>>
        /\ \/ t[1] \in {"-", "*"}
           \/ \E k \in 1..(Len(t) - 1) :
                  t[k + 1] = "." /\ \A i \in 1..k : t[i] \in Digits

IsHeaderLine(line) ==
    LET t == DropLeadingSpace(line) IN t # <<>> /\ t[1] = "#"

\* the text forms one block of prose: no blank line inside, no list item
SingleProseBlock ==
    /\ Len(blocks) = 1
    /\ \A k \in 1..Len(SplitLines(markdown_text)) :
           LET line == SplitLines(markdown_text)[k]
           IN  ~IsBulletLine(line) /\ ~IsHeaderLine(line)

Packed == pc \in {"relocate", "classify", "done"}

Oversized(s) == WordCount(s) > max_words

IsLinkShape(s, p, e) ==
    /\ At(s, Https, p) /\ At(s, DotJpg, e - Len(DotJpg) + 1)
    /\ \A i \in p..e : s[i] # "\n"
    /\ \E q \in (p + Len(Https))..(e - Len(DotJpg) - Len(ZhimgCom) + 1) :
           At(s, ZhimgCom, q)

\* the image links of s from index from on: leftmost first, each the
\* shortest at its start, none overlapping another
RECURSIVE LinkSpansFrom(_, _)
LinkSpansFrom(s, from) ==
    LET starts == {p \in from..Len(s) :
                      At(s, Https, p) /\ \E e \in p..Len(s) : IsLinkShape(s, p, e)}
    IN  IF starts = {} THEN <<>>
        ELSE LET p == CHOOSE x \in starts : \A y \in starts : x <= y
                 ends == {e \in p..Len(s) : IsLinkShape(s, p, e)}
                 e == CHOOSE x \in ends : \A y \in ends : x <= y
             IN  <<<<p, e>>>> \o LinkSpansFrom(s, e + 1)

LinkSpans(s) == LinkSpansFrom(s, 1)

\* s from index from on, with the spans i, i+1, ... replaced by $i$, $i+1$, ...
RECURSIVE Substituted(_, _, _, _)
Substituted(s, spans, i, from) ==
    IF i > Len(spans) THEN SubSeq(s, from, Len(s))
    ELSE SubSeq(s, from, spans[i][1] - 1) \o Placeholder(i)
             \o Substituted(s, spans, i + 1, spans[i][2] + 1)

\* the numbers written between the 1st and 2nd, 3rd and 4th, ... '$' of s
RECURSIVE NumbersBetween(_, _)
NumbersBetween(s, dollars) ==
    IF Cardinality(dollars) < 2 THEN <<>>
    ELSE LET a == CHOOSE x \in dollars : \A y \in dollars : x <= y
             b == CHOOSE x \in dollars \ {a} : \A y \in dollars \ {a} : x <= y
         IN  <<ToInt(s, a + 1, b - 1)>> \o NumbersBetween(s, dollars \ {a, b})

PlaceholderNumbers(s) == NumbersBetween(s, {i \in 1..Len(s) : s[i] = "$"})

C13_PlaceholderNumbering ==
    pc = "group" =>
        LET spans == LinkSpans(extracted)
        IN  /\ image_links =
                   [i \in 1..Len(spans) |->
                       SubSeq(extracted, spans[i][1], spans[i][2])]
            /\ markdown_text =
                   RemoveSearchLinks(Substituted(extracted, spans, 1, 1))
            /\ PlaceholderNumbers(markdown_text) =
                   [i \in 1..Len(spans) |-> i]

\* the same link twice, and a search link removed next to the placeholders
C13_Witness ==
    /\ pc = "group"
    /\ Len(image_links) = 2
    /\ image_links[1] = image_links[2]
    /\ PlaceholderNumbers(markdown_text) = <<1, 2>>
    /\ Len(markdown_text)
           < Len(Substituted(extracted, LinkSpans(extracted), 1, 1))

\* ------------------------------------------------------------------------
\* C14. Plain line after a bullet-run: every block whose first line is a
\* bullet or numbered item holds only bullet or numbered lines.
\* ------------------------------------------------------------------------
\* the block grouper has just returned
Grouped == pc = "pack"

BlockLines(b) == SplitLines(blocks[b])

C14_BulletRunOnlyBullets ==
    Grouped =>
        \A b \in 1..Len(blocks) :
            IsBulletLine(BlockLines(b)[1]) =>
                \A k \in 1..Len(BlockLines(b)) : IsBulletLine(BlockLines(b)[k])

\* ------------------------------------------------------------------------
\* C15. Header and blank-line boundaries: the blocks are the non-blank lines
\* of the text, in source order, cut into consecutive runs; no block is
\* empty or holds a blank line; a line starting with '#' is a block of its
\* own; two lines with a blank line between them are in different blocks.
\* ------------------------------------------------------------------------
SourceLines == SplitLines(Trimmed(markdown_text))

NonBlank(line) == Ink(line) # <<>>

NonBlankLines ==
    LET lines == SourceLines IN {i \in 1..Len(lines) : NonBlank(lines[i])}

TrimAll(ls) == [k \in 1..Len(ls) |-> Trimmed(ls[k])]

\* the block, from block b on, that holds the line of the given rank among
\* the lines of the blocks b, b+1, ... (0 if there is none)
RECURSIVE BlockHolding(_, _)
BlockHolding(rank, b) ==
    IF b > Len(blocks) THEN 0
    ELSE IF rank <= Len(BlockLines(b)) THEN b
    ELSE BlockHolding(rank - Len(BlockLines(b)), b + 1)

\* for each non-blank source line, the block that holds it
BlockOf ==
    LET nb == NonBlankLines
    IN  [i \in nb |-> BlockHolding(Cardinality({j \in nb : j <= i}), 1)]

C15_HeaderAndBlankBoundaries ==
    Grouped =>
        LET lines == SourceLines
            nb == NonBlankLines
            blk == BlockOf
        IN  /\ Concat([b \in 1..Len(blocks) |-> TrimAll(BlockLines(b))])
                   = TrimAll(SelectSeq(lines, NonBlank))
            /\ \A b \in 1..Len(blocks) : NonBlank(blocks[b])
            /\ \A i \in nb :
                   IsHeaderLine(lines[i]) => Len(BlockLines(blk[i])) = 1
            /\ \A i, j \in nb :
                   (\E k \in (i + 1)..(j - 1) : k \notin nb) => blk[i] # blk[j]

\* a header directly between two plain lines, each of the three a block
C15_Witness ==
    /\ Grouped
    /\ Len(blocks) = 3
    /\ LET lines == SourceLines
           nb == NonBlankLines
           blk == BlockOf
       IN  \E i \in nb :
               /\ IsHeaderLine(lines[i])
               /\ i - 1 \in nb /\ ~IsHeaderLine(lines[i - 1])
               /\ i + 1 \in nb /\ ~IsHeaderLine(lines[i + 1])
               /\ blk[i - 1] + 1 = blk[i] /\ blk[i] + 1 = blk[i + 1]

\* ------------------------------------------------------------------------
\* C16. Bullet absorption: a bullet or numbered line that directly follows a
\* non-blank line is in the block of that line exactly when that line is a
\* bullet or numbered line too; otherwise it starts a new block.
\* ------------------------------------------------------------------------
C16_BulletAbsorption ==
    Grouped =>
        LET lines == SourceLines
            nb == NonBlankLines
            blk == BlockOf
        IN  \A i \in nb :
                (i + 1 \in nb /\ IsBulletLine(lines[i + 1])) =>
                    (blk[i] = blk[i + 1] <=> IsBulletLine(lines[i]))

\* two bullet lines in one block right after a paragraph in another
C16_Witness ==
    /\ Grouped
    /\ LET lines == SourceLines
           nb == NonBlankLines
           blk == BlockOf
       IN  \E i \in nb :
               /\ i + 1 \in nb /\ i + 2 \in nb
               /\ ~IsBulletLine(lines[i]) /\ ~IsHeaderLine(lines[i])
               /\ IsBulletLine(lines[i + 1])
               /\ IsBulletLine(lines[i + 2])
               /\ blk[i] + 1 = blk[i + 1]
               /\ blk[i + 1] = blk[i + 2]

\* ------------------------------------------------------------------------
\* C17. Greedy sentence packing: the chunks the Sentence Splitter returns for
\* a prose block over the budget are consecutive runs of the whole sentences
\* of the block, in order, each run joined by single spaces; and a chunk
\* that is followed by another could not have taken the first sentence of
\* the next one within the budget.
\* ------------------------------------------------------------------------
RECURSIVE JoinSpace(_)
JoinSpace(ss) ==
    IF ss = <<>> THEN <<>>
    ELSE IF Len(ss) = 1 THEN ss[1]
    ELSE ss[1] \o <<" ">> \o JoinSpace(Tail(ss))

\* chunks are a maximal packing of the sentences sents, in order
RECURSIVE IsGreedyPacking(_, _, _)
IsGreedyPacking(chunks, sents, budget) ==
    IF chunks = <<>> THEN sents = <<>>
    ELSE \E n \in 1..Len(sents) :
             /\ chunks[1] = JoinSpace(SubSeq(sents, 1, n))
             /\ n < Len(sents) =>
                    WordCount(chunks[1]) + WordCount(sents[n + 1]) > budget
             /\ IsGreedyPacking(Tail(chunks), SubSeq(sents, n + 1, Len(sents)),
                                budget)

ProseBlockOverBudget == SingleProseBlock /\ Oversized(markdown_text)

C17_GreedySentencePacking ==
    (pc = "relocate" /\ ProseBlockOverBudget) =>
        IsGreedyPacking(segments, ProseSentences(markdown_text), max_words)

\* a chunk of two sentences is followed by another chunk
C17_Witness ==
    /\ pc = "relocate" /\ ProseBlockOverBudget
    /\ Len(segments) >= 2
    /\ ~HasSentenceBreak(segments[Len(segments)])
    /\ \E k \in 1..(Len(segments) - 1) :
           HasSentenceBreak(segments[k]) /\ WordCount(segments[k]) = max_words

\* ------------------------------------------------------------------------
\* C18. Bullet-run packing: the segments of a block over the budget that
\* holds a bullet line are, in order, runs of consecutive whole lines joined
\* by line breaks, each run within the budget and unable to take the next
\* line within it; only a line that alone exceeds the budget is cut, into
\* the chunks of the Sentence Splitter, each a segment of its own; no
\* segment is empty after trimming.
\* ------------------------------------------------------------------------
RECURSIVE JoinBreak(_)
JoinBreak(ss) ==
    IF ss = <<>> THEN <<>>
    ELSE IF Len(ss) = 1 THEN ss[1]
    ELSE ss[1] \o <<"\n">> \o JoinBreak(Tail(ss))

\* segs are the greedy packing of the lines ls, in order
RECURSIVE IsLinePacking(_, _, _)
IsLinePacking(segs, ls, budget) ==
    IF ls = <<>> THEN segs = <<>>
    ELSE IF WordCount(ls[1]) > budget
    THEN \E c \in 1..Len(segs) :
             /\ IsGreedyPacking(SubSeq(segs, 1, c), ProseSentences(ls[1]), budget)
             /\ IsLinePacking(SubSeq(segs, c + 1, Len(segs)), Tail(ls), budget)
    ELSE /\ segs # <<>>
         /\ \E n \in 1..Len(ls) :
                /\ segs[1] = Trimmed(JoinBreak(SubSeq(ls, 1, n)))
                /\ WordCount(segs[1]) <= budget
                /\ (n < Len(ls) /\ WordCount(ls[n + 1]) <= budget) =>
                       WordCount(segs[1]) + WordCount(ls[n + 1]) > budget
                /\ IsLinePacking(Tail(segs), SubSeq(ls, n + 1, Len(ls)), budget)

\* the text forms one block, over the budget, with a bullet line in it
BulletBlockOverBudget ==
    /\ Len(blocks) = 1
    /\ Oversized(blocks[1])
    /\ \E k \in 1..Len(BlockLines(1)) : IsBulletLine(BlockLines(1)[k])

C18_BulletRunPacking ==
    (pc = "relocate" /\ BulletBlockOverBudget) =>
        /\ IsLinePacking(segments, SplitLines(Trimmed(blocks[1])), max_words)
        /\ \A k \in 1..Len(segments) : Ink(segments[k]) # <<>>

\* a bullet-run where two lines share a segment and a later line is cut
C18_Witness ==
    /\ pc = "relocate" /\ BulletBlockOverBudget
    /\ \A k \in 1..Len(BlockLines(1)) : IsBulletLine(BlockLines(1)[k])
    /\ \E i \in 1..Len(segments[1]) : segments[1][i] = "\n"
    /\ Oversized(BlockLines(1)[Len(BlockLines(1))])
    /\ Len(segments) >= 3

OneSegmentManyMarkers ==
    Len(segments) = 1 /\ Cardinality(MarkerSpans(segments[1])) >= 2

MarkersOf(ss) == Concat([k \in 1..Len(ss) |-> MarkerNumbers(ss[k])])

C20_MarkersNeverCut ==
    /\ Packed => MarkersOf(segments) = MarkerNumbers(markdown_text)
    /\ pc \in {"classify", "done"} =>
           MarkersOf(final_segments) = MarkerNumbers(markdown_text)

\* one block with two markers was cut by the packer between the markers
C20_Witness ==
    /\ Done
    /\ Len(blocks) = 1
    /\ Len(MarkerNumbers(markdown_text)) = 2
    /\ Len(segments) = 2
    /\ HasMarker(segments[1]) /\ HasMarker(segments[2])
    /\ HasSentenceBreak(blocks[1])


\* ------------------------------------------------------------------------
\* C21
\* ------------------------------------------------------------------------
\* the segment asks for an article image that exists
ImageIndexInRange ==
    /\ segment.has_image
    /\ segment.image_index # None
    /\ 1 <= segment.image_index
    /\ segment.image_index <= Len(image_links)

\* the functions of the search path, in the order they are called
SearchPath == <<"generate_segment_search_terms", "download_videos">>

IsPrefix(s, t) == Len(s) <= Len(t) /\ SubSeq(t, 1, Len(s)) = s

Resolved == pc # "visual"

\* C21: get_segment_visual reads image_links[image_index - 1], once, exactly
\* when the segment has has_image set and 1 <= image_index <=
\* len(image_links); it never subscripts image_links outside 0..len-1; any
\* other segment (has_image false, no index, index 0, index beyond the
\* list) goes to the search path and to nothing else, and no exception
\* comes from the lookup: only the search's download can raise.
C21_SafeImageResolution ==
    Resolved =>
        /\ ImageIndexInRange =>
               /\ image_reads = <<segment.image_index - 1>>
               /\ image_url = image_links[segment.image_index]
        /\ ~ImageIndexInRange =>
               /\ image_reads = <<>>
               /\ image_url = <<>>
               /\ IsPrefix(calls, SearchPath)
               /\ pc \in {"search", "videos", "returned", "raised"}
               /\ video_path \in {NonePath, StockVideo}
        /\ \A k \in 1..Len(image_reads) :
               0 <= image_reads[k] /\ image_reads[k] < Len(image_links)
        /\ pc = "raised" =>
               calls # <<>> /\ calls[Len(calls)] = "download_videos"

\* an index of 0 with links at hand ends with a video of the search
C21_Witness ==
    /\ pc = "returned"
    /\ segment.has_image
    /\ segment.image_index = 0
    /\ image_links # <<>>
    /\ video_path = StockVideo

\* ------------------------------------------------------------------------
\* C22
\* ------------------------------------------------------------------------
Finished == pc = "finished"

\* the steps whose failure ends the run
Essential == {"parse", "voiceover", "combine"}

\* the steps whose failure the run goes on after
Tolerated == {"visual", "subtitle", "burn"}

Succeeded(step) == \E k \in 1..Len(log) : log[k] = Ok(step)

HasFailed(step) == \E k \in 1..Len(log) : log[k] = Failed(step)

\* parsing, a visual, the voiceover and the combination succeeded, one
\* after the other
RanInOrder ==
    \E a, b, c, d \in 1..Len(log) :
        /\ a < b /\ b < c /\ c < d
        /\ log[a] = Ok("parse")
        /\ log[b] = Ok("visual")
        /\ log[c] = Ok("voiceover")
        /\ log[d] = Ok("combine")

\* an essential step that fails is the last step run, and None is returned
StopsAtFailure ==
    \A k \in 1..Len(log) :
        (log[k].step \in Essential /\ ~log[k].ok) =>
            /\ k = Len(log)
            /\ Finished
            /\ result = NonePath

\* every segment was tried and none gave a visual
NoVisualAtAll ==
    /\ Succeeded("parse")
    /\ ~Succeeded("visual")
    /\ Len(log) = 1 + Len(script_segments)

\* without any visual None is returned and no later step is run
StopsWithoutVisual ==
    (Finished /\ Succeeded("parse") /\ ~Succeeded("visual")) =>
        /\ result = NonePath
        /\ NoVisualAtAll

\* C22 as amended: a path is returned only after parsing, at least one
\* visual, the voiceover and the combination succeeded in this order; a
\* failure of parsing, of the voiceover or of the combination, or of the
\* visual of every segment, returns None with no later step run; None is
\* returned for no other reason, so the failure of a visual while another
\* segment has one, of the subtitles or of burning them never gives None;
\* the path returned is the combined video's when the subtitles or burning
\* them failed, and the subtitled video's otherwise.
C22_FailureHandling ==
    /\ StopsAtFailure
    /\ StopsWithoutVisual
    /\ Finished =>
           /\ result # NonePath => RanInOrder
           /\ result = NonePath =>
                  \/ \E e \in Essential : log[Len(log)] = Failed(e)
                  \/ NoVisualAtAll
           /\ result # NonePath =>
                  result = IF Succeeded("subtitle") /\ Succeeded("burn")
                           THEN WithSubsPath
                           ELSE CombinedVideoPath

\* one visual failed, another was produced, the subtitles failed: the
\* combined video is returned
C22_Witness ==
    /\ Finished
    /\ HasFailed("visual")
    /\ Succeeded("visual")
    /\ HasFailed("subtitle")
    /\ result = CombinedVideoPath

\* C22: a path is returned only after parsing, a visual, the voiceover and
\* the combination succeeded in this order; a failure of one of these steps
\* returns None with no later step run; a failure of a single segment's
\* visual, of the subtitles or of burning them never returns None: the
\* combined video's path is returned then.
C22_ToleratedFailureReturnsCombined ==
    /\ StopsAtFailure
    /\ Finished =>
           /\ result # NonePath => RanInOrder
           /\ ((\E t \in Tolerated : HasFailed(t))
                  /\ ~(\E e \in Essential : HasFailed(e))) =>
                  result = CombinedVideoPath

====
